---- MODULE Spec2Model ----
(***************************************************************************)
(* Model of src/worker.js: the Worker entry point that routes a request    *)
(* to one SseDurableObject per room, and the SseDurableObject itself       *)
(* (client registry, replay buffer with persistence, heartbeat timer,      *)
(* per-client output queue).                                               *)
(*                                                                         *)
(* Execution model.  A Durable Object runs JavaScript on one thread: a     *)
(* handler runs without interruption up to its next await.  The code has   *)
(* two awaits on I/O: `await this.ready` in the stream's start callback    *)
(* (the storage read issued by the constructor) and `await request.text()` *)
(* in handleBroadcast.  Nothing in the code (no blockConcurrencyWhile)     *)
(* orders other handlers after the storage read, so the model lets any     *)
(* handler run while the read is pending.  handleBroadcast touches no      *)
(* object state before its await, so it is one atomic step taken when the  *)
(* body has arrived.                                                       *)
(*                                                                         *)
(* The platform calls an underlying source's cancel callback with the      *)
(* cancellation reason (WHATWG Streams: cancel(reason)); the callback in   *)
(* worker.js names that parameter `controller`.  controller.enqueue throws *)
(* a TypeError when the stream is no longer readable (cancelled, or        *)
(* errored because the promise returned by start rejected).                *)
(***************************************************************************)
EXTENDS Integers, Sequences, FiniteSets, TLC

\* ------------------------------------------------------------- constants
MAX_MESSAGES == 10

MAX_CLIENT_QUEUE == 100

\* ---------------------------------------------------------------- bounds
MaxClients == 2

MaxPublish == 2

MaxTicks == 1

MaxBurst == 101

MaxEvictions == 1

\* --------------------------------------------------------------- domains
Rooms == {"global", "a"}

\* The value of the `room` query parameter; "" stands for a request that
\* carries none (searchParams.get returns null) or an empty one.
RoomParams == {"", "a"}

Clients == 1 .. MaxClients

\* What the cancel callback receives in its parameter: the cancellation
\* reason, which is never one of the registered controller objects.
CancelReason == 0

JSON_TYPE == "application/json"

TEXT_TYPE == "text/plain"

BAD_JSON == "{bad json"

HI_JSON == "{\"message\":\"hi\"}"

\* Bodies that are valid JSON: the value null, an object that carries a
\* timestamp, and an object whose timestamp is the empty string.
NULL_JSON == "null"

STAMPED_JSON == "{\"message\":\"hi\",\"timestamp\":\"t0\"}"

EMPTY_STAMP_JSON == "{\"message\":\"hi\",\"timestamp\":\"\"}"

Absent == "<absent>"

ServerTime == "<now>"

VARIABLES
    controllers,     \* [Rooms -> SUBSET Clients]   this.controllers
    updateInterval,  \* [Rooms -> Nat]              this.updateInterval, 0 = null
    timers,          \* [Rooms -> SUBSET Nat]       interval handles set and not cleared
    lastMessages,    \* [Rooms -> Seq(Message)]     this.lastMessages
    ready,           \* [Rooms -> state of the promise this.ready]
    getResult,       \* [Rooms -> Seq(Message)]     what the constructor's storage.get reads
    storage,         \* [Rooms -> Seq(Message)]     storage key 'lastMessages'; <<>> = no value
    waiting,         \* [Rooms -> Seq(Clients)]     start callbacks suspended at await this.ready
    stream,          \* [Clients -> state of the client's ReadableStream]
    queue,           \* [Clients -> Seq(Chunk)]     controller._queue
    sink,            \* [Clients -> Seq(Chunk)]     chunks accepted by controller.enqueue
    response,        \* the last HTTP response of /broadcast
    clientRoom,      \* ghost: [Clients -> name of the object that serves the client]
    asked,           \* ghost: [Clients -> the room parameter of its request]
    failedIn,        \* ghost: [Clients -> the handler whose write to it threw]
    subAt,           \* ghost: [Clients -> Len(published) when its Subscribe began]
    published,       \* ghost: [Rooms -> Seq(Message)] every message a Publish accepted
    nextMsg,         \* ghost: number of the next accepted message
    ticks,           \* ghost: interval callbacks run so far
    threw,           \* ghost: [Clients -> calls of controller.enqueue on it that threw]
    dropped,         \* ghost: [Clients -> the shift of line 166 has dropped a chunk of it]
    incarnation      \* ghost: [Rooms -> evictions so far, and the last storage.put of
                     \*         this and of the previous incarnation of the object]

vars == <<controllers, updateInterval, timers, lastMessages, ready, getResult,
          storage, waiting, stream, queue, sink, response, clientRoom, asked,
          failedIn, subAt, published, nextMsg, ticks, threw, dropped,
          incarnation>>

\* ----------------------------------------------------------- helpers
LastN(s, n) == IF Len(s) <= n THEN s ELSE SubSeq(s, Len(s) - n + 1, Len(s))

Range(s) == {s[i] : i \in 1 .. Len(s)}

\* url.searchParams.get('room') || 'global'
RoomOf(param) == IF param = "" THEN "global" ELSE param

\* The first version of the Worker (src/unnamed/part_000) sent every request
\* to one object.
DurableObjectSingleton(param) == "global"

\* env.SSE_DURABLE_OBJECT.get(idFromName(room)): the object a request goes to.
DurableObjectFor(param) == RoomOf(param)

\* A message persisted by an earlier incarnation of object o; origin is a ghost
\* field, the room parameter of the request that published the message.
Stored(o) == [id |-> 0, origin |-> o, message |-> "old", timestamp |-> ServerTime]

ConnectedChunk == [event |-> "message", data |-> "Connected to SSE stream", via |-> "connect"]

\* `event: broadcast\ndata: ${JSON.stringify(message)}\n\n`; via is a ghost tag
\* (a replayed and a live chunk are the same bytes).
BroadcastChunk(m, how) == [event |-> "broadcast", data |-> m, via |-> how]

\* data: {timestamp, durableObjectId: this.state.id.toString()}
UpdateChunk(o) == [event |-> "update", data |-> o, via |-> "tick"]

\* ------------------------------------------------- the per-client queue
\* The part of the object a fan-out works on.
View(r) == [controllers |-> controllers[r], queue |-> queue, sink |-> sink, stream |-> stream,
            threw |-> threw, dropped |-> dropped]

\* controller._queue.push(chunk); if over _max, shift()
QueuePush(q, chunk) ==
    LET p == Append(q, chunk)
    IN IF Len(p) > MAX_CLIENT_QUEUE THEN Tail(p) ELSE p

\* while (queue.length > 0) controller.enqueue(queue.shift()), catch: delete.
\* enqueue throws on the first chunk iff the stream is not readable; the
\* shifted chunk is lost and the rest of the queue stays where it is.
tryDrainQueueStalled(S, c) == S

\* A drain that hands the stream its chunks ahead of the ones written before.
tryDrainQueueFront(S, c) ==
    IF S.queue[c] = <<>> THEN S
    ELSE IF S.stream[c] = "readable"
         THEN [S EXCEPT !.sink[c] = S.queue[c] \o @, !.queue[c] = <<>>]
         ELSE [S EXCEPT !.queue[c] = Tail(@), !.controllers = @ \ {c},
                        !.threw[c] = @ + 1]

tryDrainQueue(S, c) ==
    IF S.queue[c] = <<>> THEN S
    ELSE IF S.stream[c] = "readable"
         THEN [S EXCEPT !.sink[c] = @ \o S.queue[c], !.queue[c] = <<>>]
         ELSE [S EXCEPT !.queue[c] = Tail(@), !.controllers = @ \ {c},
                        !.threw[c] = @ + 1]

\* if (controller._queue.length > controller._max), after the push onto q
Overflows(q) == Len(q) + 1 > MAX_CLIENT_QUEUE

\* An enqueue without the registry test of line 161.
enqueueToControllerUnchecked(S, c, chunk) ==
    tryDrainQueue([S EXCEPT !.queue[c] = QueuePush(@, chunk),
                            !.dropped[c] = @ \/ Overflows(S.queue[c])], c)

enqueueToController(S, c, chunk) ==
    IF c \notin S.controllers THEN S
    ELSE tryDrainQueue([S EXCEPT !.queue[c] = QueuePush(@, chunk),
                                 !.dropped[c] = @ \/ Overflows(S.queue[c])], c)

\* for (const controller of this.controllers) enqueueToController(controller, chunk)
\* A client's enqueue touches only that client, so the iteration order of the
\* Set does not show in the result.
\* A fan-out whose loop ends at the first write that throws.
RECURSIVE FanOutToAborting(_, _, _)
FanOutToAborting(S, cs, chunk) ==
    IF cs = {} THEN S
    ELSE LET c == CHOOSE x \in cs : \A y \in cs : x <= y
             T == enqueueToController(S, c, chunk)
         IN IF c \in T.controllers THEN FanOutToAborting(T, cs \ {c}, chunk) ELSE T

RECURSIVE FanOutTo(_, _, _)
FanOutTo(S, cs, chunk) ==
    IF cs = {} THEN S
    ELSE LET c == CHOOSE x \in cs : \A y \in cs : x <= y
         IN FanOutTo(enqueueToController(S, c, chunk), cs \ {c}, chunk)

FanOut(S, chunk) == FanOutTo(S, S.controllers, chunk)

\* for (const message of this.lastMessages) enqueueToController(controller, ...)
RECURSIVE Replay(_, _, _)
Replay(S, c, msgs) ==
    IF msgs = <<>> THEN S
    ELSE Replay(enqueueToController(S, c, BroadcastChunk(Head(msgs), "replay")), c, Tail(msgs))

\* The continuations of the start callbacks suspended at await this.ready, in
\* the order they suspended.
RECURSIVE ResumeAll(_, _, _)
ResumeAll(S, cs, msgs) ==
    IF cs = <<>> THEN S
    ELSE ResumeAll(Replay(S, Head(cs), msgs), Tail(cs), msgs)

\* ------------------------------------------------------------ the timer
\* The handle setInterval returns: one no live interval of the object has.
FreshTimer(o) == CHOOSE h \in 1 .. (Cardinality(timers[o]) + 1) : h \notin timers[o]

\* this.updateInterval = setInterval(...)
startPeriodicUpdate(o) ==
    /\ timers' = [timers EXCEPT ![o] = @ \cup {FreshTimer(o)}]
    /\ updateInterval' = [updateInterval EXCEPT ![o] = FreshTimer(o)]

\* if (this.updateInterval) { clearInterval(this.updateInterval); this.updateInterval = null }
stopPeriodicUpdate(o) ==
    IF updateInterval[o] # 0
    THEN /\ timers' = [timers EXCEPT ![o] = @ \ {updateInterval[o]}]
         /\ updateInterval' = [updateInterval EXCEPT ![o] = 0]
    ELSE UNCHANGED <<timers, updateInterval>>

\* ------------------------------------------------------- the constructor
\* The first version of the object (src/unnamed/part_000) kept no history:
\* its constructor read nothing from storage.
ConstructorGetNothing(st, o) == <<>>

\* this.state.storage.get('lastMessages'), issued by the constructor: the read
\* returns what the storage st holds when the object is constructed.
ConstructorGet(st, o) == st[o]

\* The bodies of the responses of /broadcast.  data: the messages the body
\* carries (the code puts none; README.md shows a `data` field).  The texts
\* 'Broadcast sent successfully' and error.message are not modelled.
SuccessResponse == [status |-> 200, success |-> TRUE, data |-> <<>>]

ErrorResponse == [status |-> 400, success |-> FALSE, data |-> <<>>]

\* ------------------------------------------------------------------ Init
\* Every object is constructed: no controllers, no interval, an empty buffer
\* and the storage read issued.  The storage holds nothing, or what an earlier
\* incarnation of the object persisted.
Init ==
    /\ controllers = [o \in Rooms |-> {}]
    /\ updateInterval = [o \in Rooms |-> 0]
    /\ timers = [o \in Rooms |-> {}]
    /\ lastMessages = [o \in Rooms |-> <<>>]
    /\ ready = [o \in Rooms |-> "pending"]
    /\ storage \in {[o \in Rooms |-> <<>>], [o \in Rooms |-> <<Stored(o)>>]}
    /\ getResult = [o \in Rooms |-> ConstructorGet(storage, o)]
    /\ waiting = [o \in Rooms |-> <<>>]
    /\ stream = [c \in Clients |-> "none"]
    /\ queue = [c \in Clients |-> <<>>]
    /\ sink = [c \in Clients |-> <<>>]
    /\ response = [status |-> 0, success |-> FALSE, data |-> <<>>]
    /\ clientRoom = [c \in Clients |-> "none"]
    /\ asked = [c \in Clients |-> "none"]
    /\ failedIn = [c \in Clients |-> "none"]
    /\ subAt = [c \in Clients |-> 0]
    /\ published = storage
    /\ nextMsg = 1
    /\ ticks = 0
    /\ threw = [c \in Clients |-> 0]
    /\ dropped = [c \in Clients |-> FALSE]
    /\ incarnation = [o \in Rooms |-> [n |-> 0, put |-> <<>>, oldPut |-> <<>>]]

\* --------------------------------------------------------------- actions
\* What handler `how` of object o leaves of the view S it worked on.
Install(o, S, how) ==
    /\ controllers' = [controllers EXCEPT ![o] = S.controllers]
    /\ queue' = S.queue
    /\ sink' = S.sink
    /\ stream' = S.stream
    /\ threw' = S.threw
    /\ dropped' = S.dropped
    /\ failedIn' = [c \in Clients |->
                      IF S.stream[c] # "none" /\ clientRoom[c] \in {o, "none"}
                         /\ failedIn[c] = "none" /\ c \notin S.controllers
                      THEN how ELSE failedIn[c]]

\* GET /connect on object o: the start callback of the new ReadableStream, for
\* the new controller c.  It runs to `await this.ready`; when the promise is
\* already settled its continuation follows before any other handler.
handleSseConnection(o, param, c) ==
    LET S0 == [View(o) EXCEPT !.controllers = @ \cup {c}, !.queue[c] = <<>>,
                              !.stream[c] = "readable"]
        S1 == enqueueToController(S0, c, ConnectedChunk)
        S2 == CASE ready[o] = "resolved" -> Replay(S1, c, lastMessages[o])
                [] ready[o] = "pending" -> S1
                [] ready[o] = "rejected" -> [S1 EXCEPT !.stream[c] = "errored"]
    IN /\ stream[c] = "none"
       /\ IF Cardinality(S0.controllers) = 1
          THEN startPeriodicUpdate(o)
          ELSE UNCHANGED <<timers, updateInterval>>
       /\ Install(o, S2, "connect")
       /\ waiting' = IF ready[o] = "pending"
                     THEN [waiting EXCEPT ![o] = Append(@, c)]
                     ELSE waiting
       /\ clientRoom' = [clientRoom EXCEPT ![c] = o]
       /\ asked' = [asked EXCEPT ![c] = param]
       /\ subAt' = [subAt EXCEPT ![c] = Len(published[o])]
       /\ UNCHANGED <<lastMessages, ready, getResult, storage, response, published,
                      nextMsg, ticks, incarnation>>

\* storage.get('lastMessages') fulfils: the constructor's then-callback runs,
\* this.ready resolves, and the suspended start callbacks replay.
LoadComplete(o) ==
    LET msgs == IF getResult[o] # <<>> THEN getResult[o] ELSE lastMessages[o]
    IN /\ ready[o] = "pending"
       /\ lastMessages' = [lastMessages EXCEPT ![o] = msgs]
       /\ ready' = [ready EXCEPT ![o] = "resolved"]
       /\ Install(o, ResumeAll(View(o), waiting[o], msgs), "replay")
       /\ waiting' = [waiting EXCEPT ![o] = <<>>]
       /\ getResult' = [getResult EXCEPT ![o] = <<>>]
       /\ UNCHANGED <<updateInterval, timers, storage, response, clientRoom, asked,
                      subAt, published, nextMsg, ticks, incarnation>>

\* A rejected await this.ready throws in start: the promise start returned
\* rejects and the stream is errored (a cancelled stream stays closed).
ErrorStreams(st, cs) ==
    [c \in Clients |-> IF c \in cs /\ st[c] = "readable" THEN "errored" ELSE st[c]]

\* storage.get rejects: this.ready rejects under every suspended start.
LoadFail(o) ==
    /\ ready[o] = "pending"
    /\ ready' = [ready EXCEPT ![o] = "rejected"]
    /\ stream' = ErrorStreams(stream, Range(waiting[o]))
    /\ waiting' = [waiting EXCEPT ![o] = <<>>]
    /\ getResult' = [getResult EXCEPT ![o] = <<>>]
    /\ UNCHANGED <<controllers, updateInterval, timers, lastMessages, storage, queue,
                   sink, response, clientRoom, asked, failedIn, subAt, published,
                   nextMsg, ticks, threw, dropped, incarnation>>

\* The consumer of client c's stream goes away: the stream closes and the
\* cancel callback runs with the reason in its parameter.
cancel(c) ==
    LET o == clientRoom[c]
        left == controllers[o] \ {CancelReason}
    IN /\ stream[c] = "readable"
       /\ stream' = [stream EXCEPT ![c] = "closed"]
       /\ controllers' = [controllers EXCEPT ![o] = left]
       /\ IF Cardinality(left) = 0
          THEN stopPeriodicUpdate(o)
          ELSE UNCHANGED <<timers, updateInterval>>
       /\ UNCHANGED <<lastMessages, ready, getResult, storage, waiting, queue, sink,
                      response, clientRoom, asked, failedIn, subAt, published,
                      nextMsg, ticks, threw, dropped, incarnation>>

\* The callback given to setInterval, for the live interval h of object o.
Tick(o, h) ==
    /\ h \in timers[o]
    /\ Install(o, FanOut(View(o), UpdateChunk(o)), "tick")
    /\ ticks' = ticks + 1
    /\ UNCHANGED <<updateInterval, timers, lastMessages, ready, getResult, storage,
                   waiting, response, clientRoom, asked, subAt, published, nextMsg,
                   incarnation>>

\* A parsed value: type is what JSON.parse returned (an object, or null);
\* message and timestamp are the object's fields, Absent when it has none.
Object(message, timestamp) == [type |-> "object", message |-> message, timestamp |-> timestamp]

NullValue == [type |-> "null", message |-> Absent, timestamp |-> Absent]

\* JSON.parse accepting what it should reject.
JsonParseLenient(body) == [ok |-> TRUE, value |-> Object("hi", Absent)]

\* JSON.parse on the request bodies the model sends.
JsonParse(body) ==
    CASE body = BAD_JSON -> [ok |-> FALSE, value |-> NullValue]
      [] body = NULL_JSON -> [ok |-> TRUE, value |-> NullValue]
      [] body = STAMPED_JSON -> [ok |-> TRUE, value |-> Object("hi", "t0")]
      [] body = EMPTY_STAMP_JSON -> [ok |-> TRUE, value |-> Object("hi", "")]
      [] OTHER -> [ok |-> TRUE, value |-> Object("hi", Absent)]

\* Lines 115-122: the message of a request, or the throw of JSON.parse.
ParseRequest(contentType, body) ==
    IF contentType = JSON_TYPE
    THEN IF body = ""
         THEN [ok |-> TRUE, value |-> Object("Empty broadcast", Absent)]
         ELSE JsonParse(body)
    ELSE [ok |-> TRUE, value |-> Object("Non-JSON broadcast", Absent)]

\* message.timestamp on null throws a TypeError.
StampThrows(v) == v.type = "null"

\* if (!message.timestamp) message.timestamp = new Date().toISOString()
\* An absent timestamp and the empty string are both falsy.
Stamp(v) == IF v.timestamp \in {Absent, ""} THEN [v EXCEPT !.timestamp = ServerTime] ELSE v

\* Lines 113-126 run without a throw.
Accepted(contentType, body) ==
    /\ ParseRequest(contentType, body).ok
    /\ ~StampThrows(ParseRequest(contentType, body).value)

\* this.lastMessages.push(message); if over MAX_MESSAGES, shift()
PushMessage(msgs, m) ==
    LET p == Append(msgs, m)
    IN IF Len(p) > MAX_MESSAGES THEN Tail(p) ELSE p

\* A handler that awaited the put inside its try block.
PutAwaited(writeOk) == writeOk

\* this.state.waitUntil(this.state.storage.put(...)): the put's promise is
\* handed to waitUntil and not awaited, so the handler goes on whatever the
\* outcome writeOk of the write.
PutPassed(writeOk) == TRUE

\* The message of an accepted request; id and origin are ghost fields.
NewMessage(param, contentType, body) ==
    LET v == Stamp(ParseRequest(contentType, body).value)
    IN [id |-> nextMsg, origin |-> param, message |-> v.message, timestamp |-> v.timestamp]

\* POST /broadcast on object o.  writeOk: whether the storage.put this call
\* issues will succeed.
handleBroadcast(o, param, contentType, body, writeOk) ==
    LET m == NewMessage(param, contentType, body)
        msgs == PushMessage(lastMessages[o], m)
    IN /\ IF Accepted(contentType, body)
          THEN /\ lastMessages' = [lastMessages EXCEPT ![o] = msgs]
               /\ storage' = IF writeOk THEN [storage EXCEPT ![o] = msgs] ELSE storage
               /\ published' = [published EXCEPT ![o] = Append(@, m)]
               /\ nextMsg' = nextMsg + 1
               /\ incarnation' = [incarnation EXCEPT
                                     ![o].put = <<[buf |-> msgs, ok |-> writeOk]>>]
               /\ IF PutPassed(writeOk)
                  THEN /\ Install(o, FanOut(View(o), BroadcastChunk(m, "live")), "broadcast")
                       /\ response' = SuccessResponse
                  ELSE /\ response' = ErrorResponse
                       /\ UNCHANGED <<controllers, queue, sink, stream, failedIn, threw,
                                      dropped>>
          ELSE /\ response' = ErrorResponse
               /\ UNCHANGED <<lastMessages, storage, controllers, queue, sink, stream,
                              failedIn, published, nextMsg, threw, dropped,
                              incarnation>>
       /\ UNCHANGED <<updateInterval, timers, ready, getResult, waiting, clientRoom,
                      asked, subAt, ticks>>

\* The host discards object o (its memory, its interval and its connections
\* go with it) and constructs it again for the same room: the constructor
\* runs on the storage the old incarnation left.
Evict(o) ==
    /\ controllers' = [controllers EXCEPT ![o] = {}]
    /\ updateInterval' = [updateInterval EXCEPT ![o] = 0]
    /\ timers' = [timers EXCEPT ![o] = {}]
    /\ lastMessages' = [lastMessages EXCEPT ![o] = <<>>]
    /\ ready' = [ready EXCEPT ![o] = "pending"]
    /\ getResult' = [getResult EXCEPT ![o] = ConstructorGet(storage, o)]
    /\ waiting' = [waiting EXCEPT ![o] = <<>>]
    /\ stream' = [c \in Clients |->
                    IF clientRoom[c] = o /\ stream[c] # "none" THEN "gone" ELSE stream[c]]
    /\ incarnation' = [incarnation EXCEPT ![o] = [n |-> @.n + 1, put |-> <<>>,
                                                  oldPut |-> @.put]]
    /\ UNCHANGED <<storage, queue, sink, response, clientRoom, asked, failedIn, subAt,
                   published, nextMsg, ticks, threw, dropped>>

\* ---------------------------------------------------- the Worker's fetch
\* The new connection gets the first unused client identity.
NewClient ==
    CHOOSE c \in Clients : stream[c] = "none" /\ \A d \in Clients : stream[d] = "none" => c <= d

Connect(param) ==
    /\ \E c \in Clients : stream[c] = "none"
    /\ handleSseConnection(DurableObjectFor(param), param, NewClient)

Broadcast(param, contentType, body, writeOk) ==
    handleBroadcast(DurableObjectFor(param), param, contentType, body, writeOk)

Requests == {<<JSON_TYPE, HI_JSON>>, <<JSON_TYPE, BAD_JSON>>}

\* Every kind of request body handleBroadcast tells apart.
AllRequests ==
    Requests \cup {<<JSON_TYPE, "">>, <<TEXT_TYPE, HI_JSON>>, <<JSON_TYPE, NULL_JSON>>,
                   <<JSON_TYPE, STAMPED_JSON>>, <<JSON_TYPE, EMPTY_STAMP_JSON>>}

Next ==
    \/ \E p \in RoomParams : Connect(p)
    \/ \E p \in RoomParams, q \in Requests, w \in BOOLEAN :
          nextMsg <= MaxPublish /\ Broadcast(p, q[1], q[2], w)
    \/ \E o \in Rooms : LoadComplete(o)
    \/ \E o \in Rooms : LoadFail(o)
    \/ \E c \in Clients : cancel(c)
    \/ \E o \in Rooms : \E h \in timers[o] : ticks < MaxTicks /\ Tick(o, h)

Spec == Init /\ [][Next]_vars

\* Subscribe and Unsubscribe only: connections, cancellations, and the
\* completion of the storage read that a Subscribe waits for.
NextSubUnsub ==
    \/ \E p \in RoomParams : Connect(p)
    \/ \E c \in Clients : cancel(c)
    \/ \E o \in Rooms : LoadComplete(o)

SpecSubUnsub == Init /\ [][NextSubUnsub]_vars

\* One room, one subscriber, and a long run of broadcasts.
NextBurst ==
    \/ stream[1] = "none" /\ Connect("a")
    \/ nextMsg <= MaxBurst /\ Broadcast("a", TEXT_TYPE, "", TRUE)
    \/ LoadComplete("a")

SpecBurst == Init /\ [][NextBurst]_vars

\* Room "a" under every kind of publish request.
NextPublish ==
    \/ Connect("a")
    \/ \E q \in AllRequests : nextMsg <= MaxPublish /\ Broadcast("a", q[1], q[2], TRUE)
    \/ LoadComplete("a")
    \/ \E c \in Clients : cancel(c)

SpecPublish == Init /\ [][NextPublish]_vars

\* Publishes, evictions and reloads of room "a", and the subscribers that
\* see the replay.
NextEvict ==
    \/ Connect("a")
    \/ \E w \in BOOLEAN : nextMsg <= MaxPublish /\ Broadcast("a", JSON_TYPE, HI_JSON, w)
    \/ LoadComplete("a")
    \/ incarnation["a"].n < MaxEvictions /\ Evict("a")

SpecEvict == Init /\ [][NextEvict]_vars

\* ------------------------------------------------------------ properties
\* The client's Subscribe has run to its end and its stream is open.
Subscribed(c) ==
    /\ stream[c] = "readable"
    /\ c \in controllers[clientRoom[c]]
    /\ c \notin Range(waiting[clientRoom[c]])

IsReplay(ch) == ch.via = "replay"

IsLive(ch) == ch.via = "live"

DataOf(chunks) == [i \in 1 .. Len(chunks) |-> chunks[i].data]

\* The messages client c was sent as replay / live, in the order written.
ReplayData(c) == DataOf(SelectSeq(sink[c], IsReplay))

LiveData(c) == DataOf(SelectSeq(sink[c], IsLive))

\* The messages published to c's room before its Subscribe began.
PublishedBefore(c) == SubSeq(published[clientRoom[c]], 1, subAt[c])

\* C1: a subscriber is sent as replay exactly the min(N,10) most recent of the
\* N messages published before its Subscribe, oldest first, and every replay
\* chunk is written before any chunk of a message published after the
\* Subscribe began.
C1_ReplayBeforeLive ==
    \A c \in Clients :
        Subscribed(c) =>
            /\ ReplayData(c) = LastN(PublishedBefore(c), MAX_MESSAGES)
            /\ \A i, j \in 1 .. Len(sink[c]) :
                   (IsLive(sink[c][i]) /\ IsReplay(sink[c][j])) => j < i

NoSubscribers(o) == \A c \in Clients : clientRoom[c] # o

\* C2: the replay buffer never holds more than 10 messages, and in a room
\* that has had no subscribers it is the last min(k,10) published messages in
\* arrival order.
C2_BufferIsLastPublished ==
    \A o \in Rooms :
        /\ Len(lastMessages[o]) <= MAX_MESSAGES
        /\ (NoSubscribers(o) /\ ready[o] = "resolved") =>
               lastMessages[o] = LastN(published[o], MAX_MESSAGES)

\* C3: after any sequence of Subscribe and Unsubscribe the heartbeat timer is
\* set if and only if the room has a registered client.
C3_HeartbeatIffOccupied ==
    \A o \in Rooms : (updateInterval[o] # 0) <=> (controllers[o] # {})

\* C4: once a failed sink write has removed the last registered client of a
\* room, no heartbeat timer of the room is running.
C4_FailureStopsHeartbeat ==
    \A o \in Rooms :
        (controllers[o] = {} /\ \E c \in Clients : clientRoom[c] = o /\ failedIn[c] # "none")
            => (updateInterval[o] = 0 /\ timers[o] = {})

\* The room a room parameter names.
Named(p) == IF p = "" THEN "global" ELSE p

\* C5: a Publish that declares JSON and carries unparsable JSON returns a
\* failure and changes neither the replay buffer, the persisted buffer, the
\* client set, nor any client's queue or received chunks.
C5_BadJsonChangesNothing ==
    [][\A p \in RoomParams, w \in BOOLEAN :
          Broadcast(p, JSON_TYPE, BAD_JSON, w) =>
              /\ response'.success = FALSE
              /\ response'.status = 400
              /\ UNCHANGED <<lastMessages, storage, controllers, stream, queue, sink,
                             published>>]_vars

C5_Witness ==
    /\ response.status = 400
    /\ \E c \in Clients : Subscribed(c) /\ LiveData(c) # <<>>

\* C6: a message published to one room is never in another room's replay
\* buffer or persisted history and never written to a subscriber of another
\* room, and a request without a room parameter is served by room "global".
C6_RoomIsolation ==
    /\ \A o \in Rooms :
           /\ \A m \in Range(lastMessages[o]) \cup Range(storage[o]) : Named(m.origin) = o
           /\ \A c \in controllers[o] : Named(asked[c]) = o
    /\ \A c \in Clients :
           stream[c] # "none" =>
               /\ clientRoom[c] = Named(asked[c])
               /\ \A i \in 1 .. Len(sink[c]) :
                      sink[c][i].event = "broadcast" =>
                          Named(sink[c][i].data.origin) = Named(asked[c])

C6_Witness ==
    \E c \in Clients :
        /\ asked[c] = "a"
        /\ Subscribed(c)
        /\ \E i \in 1 .. Len(LiveData(c)) :
               \E m \in Range(lastMessages["global"]) :
                   m.origin = "" /\ m.id > LiveData(c)[i].id

\* What a fan-out of chunk in object o does to each registered client: a
\* client whose stream is readable is written the chunk and stays, a client
\* whose write throws is removed and written nothing.
FanOutStep(o, chunk) ==
    \A c \in controllers[o] :
        IF stream[c] = "readable"
        THEN c \in controllers'[o] /\ sink'[c] = Append(sink[c], chunk)
        ELSE c \notin controllers'[o] /\ sink'[c] = sink[c]

\* C7: when one client's write fails during a Publish fan-out or a heartbeat
\* tick, that client is removed, every other registered client still
\* receives the chunk, and the Publish returns success.
C7_WriteFailureIsIsolated ==
    [][/\ \A p \in RoomParams, q \in Requests, w \in BOOLEAN :
             (ParseRequest(q[1], q[2]).ok /\ Broadcast(p, q[1], q[2], w)) =>
                 /\ FanOutStep(Named(p), BroadcastChunk(NewMessage(p, q[1], q[2]), "live"))
                 /\ response'.success
       /\ \A o \in Rooms : \A h \in timers[o] :
             Tick(o, h) => FanOutStep(o, UpdateChunk(o))]_vars

C7_Witness ==
    \E c, d \in Clients :
        /\ c # d
        /\ clientRoom[c] = clientRoom[d]
        /\ failedIn[c] = "broadcast"
        /\ Subscribed(d)
        /\ nextMsg = 2
        /\ LiveData(d) # <<>>
        /\ response.success

\* C8: when the initial read of the persisted history fails, a Subscribe
\* still succeeds: no subscriber's stream is put into an error state.
C8_ReadFailureKeepsStreamsOpen ==
    \A c \in Clients :
        (stream[c] # "none" /\ ready[clientRoom[c]] = "rejected") => stream[c] # "errored"

\* C9: a Publish whose storage write fails still returns success, has its
\* message in the in-memory replay buffer, and its chunk is enqueued to every
\* registered client.
C9_WriteFailureDoesNotFailPublish ==
    [][\A p \in RoomParams, q \in Requests :
          (ParseRequest(q[1], q[2]).ok /\ Broadcast(p, q[1], q[2], FALSE)) =>
              LET o == Named(p)
                  m == NewMessage(p, q[1], q[2])
              IN /\ response'.success
                 /\ response'.status = 200
                 /\ lastMessages'[o] # <<>>
                 /\ lastMessages'[o][Len(lastMessages'[o])] = m
                 /\ \A c \in controllers[o] :
                        stream[c] = "readable" =>
                            sink'[c] = Append(sink[c], BroadcastChunk(m, "live"))]_vars

C9_Witness ==
    \E o \in Rooms :
        /\ nextMsg = 2
        /\ storage[o] = <<>>
        /\ lastMessages[o] # <<>>
        /\ response.success
        /\ \E c \in controllers[o] : Subscribed(c) /\ LiveData(c) # <<>>

QueueDrainedNothingDropped ==
    \A c \in Clients :
        /\ Len(queue[c]) <= MAX_CLIENT_QUEUE
        /\ stream[c] = "readable" =>
               /\ queue[c] = <<>>
               /\ c \in controllers[clientRoom[c]]
               /\ sink[c][1] = ConnectedChunk
               /\ LiveData(c) = SubSeq(published[clientRoom[c]], subAt[c] + 1,
                                       Len(published[clientRoom[c]]))

SentMoreThanQueueHolds ==
    \E c \in Clients : stream[c] = "readable" /\ Len(sink[c]) > MAX_CLIENT_QUEUE

\* C11: Unsubscribe removes the cancelled client from the room's client set
\* (so no chunk is enqueued for it afterwards): a client whose stream was
\* cancelled is not registered.
C11_CancelRemovesClient ==
    \A c \in Clients :
        stream[c] = "closed" => c \notin controllers[clientRoom[c]]

\* The first client to subscribe to the current incarnation of object o.
FirstSubscriber(o) ==
    CHOOSE c \in Clients :
        /\ clientRoom[c] = o /\ stream[c] # "gone"
        /\ \A d \in Clients : (clientRoom[d] = o /\ stream[d] # "gone") => c <= d

\* C12: when an object is discarded after the storage write of its last
\* Publish has completed and is constructed again, the first Subscribe on the
\* new incarnation (no Publish having reached it yet) replays exactly the
\* messages the old incarnation's buffer held after that Publish, in order.
C12_ReloadReplaysPersisted ==
    \A o \in Rooms : \A c \in Clients :
        (/\ incarnation[o].n > 0
         /\ incarnation[o].oldPut # <<>>
         /\ incarnation[o].put = <<>>
         /\ clientRoom[c] = o /\ stream[c] # "gone" /\ c = FirstSubscriber(o)
         /\ Subscribed(c))
        => (incarnation[o].oldPut[1].ok => ReplayData(c) = incarnation[o].oldPut[1].buf)

C12_Witness ==
    \E c \in Clients :
        /\ incarnation["a"].n > 0
        /\ incarnation["a"].oldPut # <<>>
        /\ incarnation["a"].oldPut[1].ok
        /\ incarnation["a"].put = <<>>
        /\ clientRoom[c] = "a" /\ stream[c] # "gone" /\ c = FirstSubscriber("a")
        /\ Subscribed(c)
        /\ Len(ReplayData(c)) >= 2

\* C13: a successful Publish returns a result that carries the stored Message,
\* the one appended to the replay buffer and broadcast.
C13_SuccessCarriesStoredMessage ==
    response.success =>
        \E o \in Rooms :
            /\ published[o] # <<>>
            /\ response.data = <<published[o][Len(published[o])]>>

\* The only requests the claim lets fail: JSON declared, body not parsable.
Unparsable(q) == q[1] = JSON_TYPE /\ q[2] # "" /\ ~JsonParse(q[2]).ok

\* C14: every Publish other than a JSON-declared body that is not parsable
\* JSON succeeds, appends one Message to the replay buffer and fans it out to
\* every registered client; the empty-body and the non-JSON case store their
\* placeholder payloads.
C14_OnlyUnparsableJsonFails ==
    [][\A q \in AllRequests :
          (~Unparsable(q) /\ Broadcast("a", q[1], q[2], TRUE)) =>
              LET m == NewMessage("a", q[1], q[2])
              IN /\ response'.success
                 /\ lastMessages'["a"] = PushMessage(lastMessages["a"], m)
                 /\ FanOutStep("a", BroadcastChunk(m, "live"))
                 /\ (q[1] = JSON_TYPE /\ q[2] = "") => m.message = "Empty broadcast"
                 /\ q[1] # JSON_TYPE => m.message = "Non-JSON broadcast"]_vars

\* C15: the Message stored by a successful Publish, and the broadcast event
\* delivered for it, has a populated timestamp: the current time when the
\* payload has no timestamp field, and the publisher's value when the payload
\* has one, whatever that value is.
C15_TimestampInjectedOrKept ==
    [][\A q \in AllRequests :
          (Accepted(q[1], q[2]) /\ Broadcast("a", q[1], q[2], TRUE)) =>
              LET supplied == ParseRequest(q[1], q[2]).value.timestamp
                  stored == lastMessages'["a"][Len(lastMessages'["a"])]
              IN /\ stored.timestamp # Absent
                 /\ supplied = Absent => stored.timestamp = ServerTime
                 /\ supplied # Absent => stored.timestamp = supplied
                 /\ \A c \in controllers["a"] :
                        stream[c] = "readable" =>
                            sink'[c][Len(sink'[c])].data.timestamp = stored.timestamp]_vars

\* C16: Subscribe, Unsubscribe and Publish on one room are strictly
\* serialized: while a Subscribe on a room is suspended at its await on the
\* storage load, no other Subscribe, Unsubscribe or Publish on that room
\* reads or changes the room's state.
C16_StrictlySerialized ==
    [][\A p \in RoomParams :
          waiting[DurableObjectFor(p)] # <<>> =>
              /\ ~Connect(p)
              /\ ~(\E q \in Requests, w \in BOOLEAN :
                      Accepted(q[1], q[2]) /\ Broadcast(p, q[1], q[2], w))
              /\ ~(\E c \in Clients : clientRoom[c] = DurableObjectFor(p) /\ cancel(c))]_vars

\* C17: at most one heartbeat timer runs for a room, and every running timer
\* is the one stopPeriodicUpdate would cancel (no handle is overwritten while
\* its interval is live).
C17_OneTimerNoLeak ==
    \A o \in Rooms :
        /\ Cardinality(timers[o]) <= 1
        /\ \A h \in timers[o] : h = updateInterval[o]

\* C18: the completion of the initial load never removes or replaces a
\* message a Publish has appended to the in-memory buffer, and a storage
\* write never drops a persisted message while the history is below its
\* capacity (only the FIFO eviction removes messages).
C18_LoadKeepsPublished ==
    [][\A o \in Rooms :
          /\ LoadComplete(o) =>
                 \A m \in Range(lastMessages[o]) : m \in Range(lastMessages'[o])
          /\ Len(storage[o]) < MAX_MESSAGES =>
                 \A m \in Range(storage[o]) : m \in Range(storage'[o])]_vars

\* C19: a client's first failed sink write removes it for good: from then on
\* no write to its sink is attempted (none succeeds, none throws), every
\* enqueue for it leaves its queue as it is, and it is never registered again.
C19_FailedClientStaysRemoved ==
    [][\A c \in Clients :
          /\ threw'[c] >= 1 => c \notin controllers'[clientRoom'[c]]
          /\ threw[c] >= 1 =>
                 /\ threw'[c] = threw[c]
                 /\ sink'[c] = sink[c]
                 /\ queue'[c] = queue[c]]_vars

C19_Witness ==
    \E c, d \in Clients :
        /\ c # d
        /\ clientRoom[c] = clientRoom[d]
        /\ threw[c] = 1
        /\ failedIn[c] = "tick"
        /\ Subscribed(d)
        /\ \E i, j \in 1 .. Len(sink[d]) :
               i < j /\ sink[d][i].via = "tick" /\ sink[d][j].via = "live"

\* C20: for every subscriber connection and every published message, the
\* broadcast chunk of the message is written to the subscriber's sink at most
\* once, replay and live fan-out counted together.
C20_AtMostOnce ==
    \A c \in Clients :
        \A i, j \in 1 .. Len(sink[c]) :
            (/\ i < j
             /\ sink[c][i].event = "broadcast"
             /\ sink[c][j].event = "broadcast")
            => sink[c][i].data # sink[c][j].data

\* C21: the first chunk written to every subscriber's sink is the connection
\* confirmation, and the messages a subscriber is delivered live are written
\* to its sink in the order they were published (message ids count the
\* accepted Publishes).
C21_ConfirmationFirstLiveInOrder ==
    \A c \in Clients :
        stream[c] # "none" =>
            /\ sink[c] # <<>>
            /\ sink[c][1] = ConnectedChunk
            /\ \A i, j \in 1 .. Len(LiveData(c)) :
                   i < j => LiveData(c)[i].id < LiveData(c)[j].id

C21_Witness ==
    \E c \in Clients :
        /\ Subscribed(c)
        /\ Len(LiveData(c)) >= 2
        /\ ReplayData(c) # <<>>

\* C22: whenever a handler has returned, the queue of every registered client
\* is empty (each enqueued chunk was written to the sink inside the same
\* enqueue, or the client was removed), no queue holds more than one chunk,
\* and the drop-oldest branch has never been taken.
C22_QueueEmptyNeverOverflows ==
    /\ \A o \in Rooms : \A c \in controllers[o] : queue[c] = <<>>
    /\ \A c \in Clients : Len(queue[c]) <= 1 /\ ~dropped[c]

C22_Witness ==
    \E c \in Clients :
        /\ Subscribed(c)
        /\ Len(sink[c]) > MAX_CLIENT_QUEUE + 1
        /\ queue[c] = <<>>
        /\ ~dropped[c]

====
